---- MODULE Spec2Model ----
(***************************************************************************)
(* Model of the tariff-tracker event pipeline: clean_event_data,           *)
(* normalize_date, load_country_codes, events_to_dataframe and             *)
(* calculate_event_statistics (src/utils/data_processing.py) and           *)
(* create_world_map (src/utils/visualization.py).                          *)
(*                                                                         *)
(* Python values are modelled as tagged records.  A string that the code   *)
(* takes apart (dates, comma-delimited list fields) is a sequence of       *)
(* one-character strings; a string the code only compares or copies (ids,  *)
(* country codes, country names) is a TLA+ string.                         *)
(***************************************************************************)
EXTENDS Integers, Sequences, FiniteSets, TLC

VARIABLES
    csv_file,        \* data/country_codes_iso_3166.csv: "missing" or "present"
    events,          \* the raw batch handed to clean_event_data
    cleaned_events,  \* the list clean_event_data returned
    date_str,        \* the argument of a normalize_date call
    date_out,        \* what normalize_date returned for it
    previous,        \* what an earlier clean_event_data call returned
    events_df,       \* the DataFrame events_to_dataframe built
    map_type,        \* the map_type argument of create_world_map
    map_rows,        \* country_counts, the rows create_world_map plots
    stats,           \* what calculate_event_statistics returned
    source,          \* the data source: API key, API response, sample file
    fetch_cache,     \* st.cache_data entry of fetch_tariff_events
    session,         \* st.session_state
    last_call,       \* what the last data_manager call did
    widgets,         \* the values of the Query Builder's input widgets
    api_request,     \* the request the Query Builder built from them
    pc               \* position of the run

vars == <<csv_file, events, cleaned_events, date_str, date_out, previous,
          events_df, map_type, map_rows, stats, source, fetch_cache, session,
          last_call, widgets, api_request, pc>>

\* the variables of the session layer, and their value while it is unused
sessionVars == <<source, fetch_cache, session, last_call, widgets, api_request>>
SessionUnused ==
    /\ source = <<>>
    /\ fetch_cache = <<>>
    /\ session = <<>>
    /\ last_call = <<>>
    /\ widgets = <<>>
    /\ api_request = <<>>

\* the variables of the later pipeline stages
laterVars == <<previous, events_df, map_type, map_rows, stats>>

----------------------------------------------------------------------------
(* Bounds of the model *)

MaxEvents == 2      \* longest raw batch
MaxCodes == 2       \* longest targeted_country_codes / _names list
MaxStrLen == 4      \* longest comma-delimited list-field string
MaxDateLen == 8     \* longest enumerated date string ("2222/2/2" has 8)
MaxEventDateLen == 6  \* longest enumerated date string inside a raw event
MaxListLen == 2     \* longest list supplied for a designated list field

----------------------------------------------------------------------------
(* Python strings as character sequences *)

Digits == {"0", "1", "2", "3", "4", "5", "6", "7", "8", "9"}

\* what str.strip() removes
Whitespace == {" ", "\t", "\n"}

\* all sequences over S of length at most n
SeqsUpTo(S, n) == UNION {[1..k -> S] : k \in 0..n}

RECURSIVE SplitAcc(_, _, _, _, _)
SplitAcc(s, sep, i, cur, acc) ==
    IF i > Len(s) THEN Append(acc, cur)
    ELSE IF s[i] = sep THEN SplitAcc(s, sep, i + 1, <<>>, Append(acc, cur))
    ELSE SplitAcc(s, sep, i + 1, Append(cur, s[i]), acc)

\* str.split(sep) for a one-character separator: always at least one segment
StrSplit(s, sep) == SplitAcc(s, sep, 1, <<>>, <<>>)

RECURSIVE LStrip(_)
LStrip(s) == IF s # <<>> /\ Head(s) \in Whitespace THEN LStrip(Tail(s)) ELSE s

RECURSIVE RStrip(_)
RStrip(s) ==
    IF s # <<>> /\ s[Len(s)] \in Whitespace
    THEN RStrip(SubSeq(s, 1, Len(s) - 1))
    ELSE s

\* str.strip()
StrStrip(s) == RStrip(LStrip(s))

RECURSIVE Zfill(_, _)
\* str.zfill(width) of a string of digits
Zfill(s, width) == IF Len(s) >= width THEN s ELSE Zfill(<<"0">> \o s, width)

AllDigits(s) == \A i \in 1..Len(s) : s[i] \in Digits

\* the whole of s matches \d{4}/\d{1,2}(/\d{1,2})?
FullSlashDate(s) ==
    LET parts == StrSplit(s, "/") IN
        /\ Len(parts) \in {2, 3}
        /\ Len(parts[1]) = 4 /\ AllDigits(parts[1])
        /\ \A k \in 2..Len(parts) : Len(parts[k]) \in {1, 2} /\ AllDigits(parts[k])

\* re.match(r"^\d{4}/\d{1,2}(/\d{1,2})?$", s): "$" also matches just before
\* a newline that ends the string
MatchSlashDate(s) ==
    \/ FullSlashDate(s)
    \/ /\ s # <<>>
       /\ s[Len(s)] = "\n"
       /\ FullSlashDate(SubSeq(s, 1, Len(s) - 1))

----------------------------------------------------------------------------
(* Python values *)

\* a date-valued raw field: key absent, explicit null, or a string
DAbsent == [t |-> "absent", v |-> <<>>]
DNone == [t |-> "none", v |-> <<>>]
DStr(s) == [t |-> "str", v |-> s]
\* a date field holding a non-zero number instead of a string
DInt == [t |-> "int", v |-> <<>>]

\* dict.get(key, default) on a tagged value
PyGet(x, default) == IF x.t = "absent" THEN default ELSE x

----------------------------------------------------------------------------
(* normalize_date *)

\* faulty variant: the time-of-day branch is missing
NormalizeDateKeepTime(d) ==
    IF d.t # "int" /\ d.v = <<>> THEN DStr(<<>>)
    ELSE IF MatchSlashDate(d.v)
    THEN LET parts == StrSplit(d.v, "/") IN
         IF Len(parts) = 2
         THEN DStr(parts[1] \o <<"-">> \o Zfill(parts[2], 2))
         ELSE DStr(parts[1] \o <<"-">> \o Zfill(parts[2], 2)
                            \o <<"-">> \o Zfill(parts[3], 2))
    ELSE d

NormalizeDate(d) ==
    IF d.t # "int" /\ d.v = <<>> THEN DStr(<<>>)              \* if not date_str
    ELSE IF MatchSlashDate(d.v)
    THEN LET parts == StrSplit(d.v, "/") IN
         IF Len(parts) = 2
         THEN DStr(parts[1] \o <<"-">> \o Zfill(parts[2], 2))
         ELSE DStr(parts[1] \o <<"-">> \o Zfill(parts[2], 2)
                            \o <<"-">> \o Zfill(parts[3], 2))
    ELSE IF \E i \in 1..Len(d.v) : d.v[i] = " "
    THEN DStr(StrSplit(d.v, " ")[1])                          \* split(" ")[0]
    ELSE d

----------------------------------------------------------------------------
(* Date inputs *)

DateAlphabet == {"2", "/", " ", "-"}

TimestampSample ==
    <<"2","0","2","4","-","0","3","-","0","5"," ","1","4",":","3","0",":","0","0">>
IsoTSample ==
    <<"2","0","2","4","-","0","3","-","0","5","T","1","4",":","3","0",":","0","0">>
SlashTimeSample ==
    <<"2","0","2","4","/","3","/","5"," ","1","4",":","3","0",":","0","0">>
QuarterSample == <<"Q","1"," ","2","0","2","4">>

DateSamples ==
    { <<>>,
      TimestampSample,
      IsoTSample,
      SlashTimeSample,
      QuarterSample,
      <<"2","0","2","4","/","3">>,
      <<"2","0","2","4","/","3","/","5">>,
      <<"2","0","2","4","/","1","2","/","2","5">>,
      <<"2","0","2","4","-","0","3","-","0","5">>,
      <<"s","o","o","n">> }

DateInputs == SeqsUpTo(DateAlphabet, MaxDateLen) \cup DateSamples

----------------------------------------------------------------------------
(* The date specification: a string is normalised, and the result is      *)
(* normalised again, as when an already cleaned event is re-processed.    *)

InitDate ==
    /\ csv_file = "missing"
    /\ events = <<>>
    /\ cleaned_events = <<>>
    /\ date_str \in DateInputs
    /\ date_out = <<>>
    /\ previous = <<>>
    /\ events_df = <<>>
    /\ map_type = ""
    /\ map_rows = {}
    /\ stats = <<>>
    /\ SessionUnused
    /\ pc = "date_in"

NormalizeDateCall ==
    /\ pc = "date_in"
    /\ date_out' = <<NormalizeDate(DStr(date_str)).v>>
    /\ pc' = "date_once"
    /\ UNCHANGED <<csv_file, events, cleaned_events, date_str>>
    /\ UNCHANGED laterVars
    /\ UNCHANGED sessionVars

NormalizeDateAgain ==
    /\ pc = "date_once"
    /\ date_out' = Append(date_out, NormalizeDate(DStr(date_out[1])).v)
    /\ pc' = "date_twice"
    /\ UNCHANGED <<csv_file, events, cleaned_events, date_str>>
    /\ UNCHANGED laterVars
    /\ UNCHANGED sessionVars

NextDate == NormalizeDateCall \/ NormalizeDateAgain

SpecDate == InitDate /\ [][NextDate]_vars

----------------------------------------------------------------------------
(* Claims about normalize_date, checked under SpecDate *)

\* "YYYY-MM-DD HH:MM:SS"
IsTimestamp(s) ==
    /\ Len(s) = 19
    /\ \A i \in {1, 2, 3, 4, 6, 7, 9, 10, 12, 13, 15, 16, 18, 19} : s[i] \in Digits
    /\ s[5] = "-" /\ s[8] = "-" /\ s[11] = " " /\ s[14] = ":" /\ s[17] = ":"

\* the rule as the specification words it
StatedDateRule(s) ==
    IF s = <<>> THEN <<>>
    ELSE IF IsTimestamp(s) THEN SubSeq(s, 1, 10)
    ELSE IF FullSlashDate(s)
    THEN LET parts == StrSplit(s, "/") IN
         IF Len(parts) = 2
         THEN parts[1] \o <<"-">> \o Zfill(parts[2], 2)
         ELSE parts[1] \o <<"-">> \o Zfill(parts[2], 2) \o <<"-">> \o Zfill(parts[3], 2)
    ELSE s

\* C7: normalize_date cuts "YYYY-MM-DD HH:MM:SS" to its date part, zero-pads
\* the slash forms, maps "" to the empty value and returns every other
\* string unchanged.
C7_NormalizeDateRule ==
    pc \in {"date_once", "date_twice"} => date_out[1] = StatedDateRule(date_str)

\* C9: normalize_date is idempotent: normalising an already normalised date
\* returns it unchanged.
C9_NormalizeDateIdempotent ==
    pc = "date_twice" => date_out[2] = date_out[1]

----------------------------------------------------------------------------
(* Raw field values *)

\* a string-valued raw field (id, country code, country name, measure type)
SAbsent == [t |-> "absent", v |-> ""]
SNone == [t |-> "none", v |-> ""]
SStr(x) == [t |-> "str", v |-> x]

\* targeted_country_codes / targeted_country_names: absent, null or a list
TAbsent == [t |-> "absent", l |-> <<>>]
TNone == [t |-> "none", l |-> <<>>]
TList(l) == [t |-> "list", l |-> l]

\* a designated list field: absent, null, a scalar string or a list of strings
LAbsent == [t |-> "absent", s |-> <<>>, l |-> <<>>]
LNone == [t |-> "none", s |-> <<>>, l |-> <<>>]
LStr(s) == [t |-> "str", s |-> s, l |-> <<>>]
LList(l) == [t |-> "list", s |-> <<>>, l |-> l]

\* main_tariff_rate: absent, null, a number or a string
RAbsent == [t |-> "absent", n |-> 0, s |-> <<>>]
RNone == [t |-> "none", n |-> 0, s |-> <<>>]
RNum(n) == [t |-> "num", n |-> n, s |-> <<>>]
RStr(s) == [t |-> "str", n |-> 0, s |-> s]

\* Python truth of a string-valued field and of a list-valued field
STruthy(x) == x.t = "str" /\ x.v # ""
TTruthy(x) == x.t = "list" /\ x.l # <<>>

\* the keys of tariffs_v2 the model carries
TariffKeys ==
    {"imposing_country_code", "imposing_country_name",
     "targeted_country_codes", "targeted_country_names", "measure_type",
     "affected_industries", "affected_products", "hs_product_categories",
     "tariff_rates", "announcement_date", "implementation_date",
     "expiration_date", "main_tariff_rate"}

\* tariff_data = event.get("tariffs_v2", {}); not tariff_data
\* (tv is "absent", "none", "dict", or "str" for a non-empty string in place
\* of the mapping; a dict is empty when it has no key)
TariffDataFalsy(event) ==
    \/ event.tv \in {"absent", "none"}
    \/ event.tv = "dict" /\ \A k \in TariffKeys : event[k].t = "absent"

----------------------------------------------------------------------------
(* load_country_codes *)

DefaultMapping ==
    [c \in {"US", "GB", "EU", "CN", "RU", "JP", "DE", "FR", "CA", "AU", "BR",
            "IN", "MX", "KR", "IT", "ES", "NL", "CH", "SA", "TR", "ZA", "SG",
            "MY", "ID", "TH", "AE"} |->
        CASE c = "US" -> "United States"
          [] c = "GB" -> "United Kingdom"
          [] c = "EU" -> "European Union"
          [] c = "CN" -> "China"
          [] c = "RU" -> "Russia"
          [] c = "JP" -> "Japan"
          [] c = "DE" -> "Germany"
          [] c = "FR" -> "France"
          [] c = "CA" -> "Canada"
          [] c = "AU" -> "Australia"
          [] c = "BR" -> "Brazil"
          [] c = "IN" -> "India"
          [] c = "MX" -> "Mexico"
          [] c = "KR" -> "South Korea"
          [] c = "IT" -> "Italy"
          [] c = "ES" -> "Spain"
          [] c = "NL" -> "Netherlands"
          [] c = "CH" -> "Switzerland"
          [] c = "SA" -> "Saudi Arabia"
          [] c = "TR" -> "Turkey"
          [] c = "ZA" -> "South Africa"
          [] c = "SG" -> "Singapore"
          [] c = "MY" -> "Malaysia"
          [] c = "ID" -> "Indonesia"
          [] c = "TH" -> "Thailand"
          [] c = "AE" -> "United Arab Emirates"]

\* the Alpha-2 codes of the rows of the reference file when it is present
\* (ISO 3166: the EU member states, the United States, China and Viet Nam)
CsvCodes ==
    {"AT", "BE", "BG", "HR", "CY", "CZ", "DK", "EE", "FI", "FR", "DE",
     "GR", "HU", "IE", "IT", "LV", "LT", "LU", "MT", "NL", "PL", "PT",
     "RO", "SK", "SI", "ES", "SE", "US", "CN", "VN"}

\* the (Alpha-2 code, Country) columns of those rows
CsvCountryRows ==
    [c \in CsvCodes |->
        CASE c = "AT" -> "Austria"
          [] c = "BE" -> "Belgium"
          [] c = "BG" -> "Bulgaria"
          [] c = "HR" -> "Croatia"
          [] c = "CY" -> "Cyprus"
          [] c = "CZ" -> "Czechia"
          [] c = "DK" -> "Denmark"
          [] c = "EE" -> "Estonia"
          [] c = "FI" -> "Finland"
          [] c = "FR" -> "France"
          [] c = "DE" -> "Germany"
          [] c = "GR" -> "Greece"
          [] c = "HU" -> "Hungary"
          [] c = "IE" -> "Ireland"
          [] c = "IT" -> "Italy"
          [] c = "LV" -> "Latvia"
          [] c = "LT" -> "Lithuania"
          [] c = "LU" -> "Luxembourg"
          [] c = "MT" -> "Malta"
          [] c = "NL" -> "Netherlands"
          [] c = "PL" -> "Poland"
          [] c = "PT" -> "Portugal"
          [] c = "RO" -> "Romania"
          [] c = "SK" -> "Slovakia"
          [] c = "SI" -> "Slovenia"
          [] c = "ES" -> "Spain"
          [] c = "SE" -> "Sweden"
          [] c = "US" -> "United States of America"
          [] c = "CN" -> "China"
          [] c = "VN" -> "Viet Nam"]

\* the (Alpha-2 code, Alpha-3 code) columns of those rows
CsvAlpha3Rows ==
    [c \in CsvCodes |->
        CASE c = "AT" -> "AUT"
          [] c = "BE" -> "BEL"
          [] c = "BG" -> "BGR"
          [] c = "HR" -> "HRV"
          [] c = "CY" -> "CYP"
          [] c = "CZ" -> "CZE"
          [] c = "DK" -> "DNK"
          [] c = "EE" -> "EST"
          [] c = "FI" -> "FIN"
          [] c = "FR" -> "FRA"
          [] c = "DE" -> "DEU"
          [] c = "GR" -> "GRC"
          [] c = "HU" -> "HUN"
          [] c = "IE" -> "IRL"
          [] c = "IT" -> "ITA"
          [] c = "LV" -> "LVA"
          [] c = "LT" -> "LTU"
          [] c = "LU" -> "LUX"
          [] c = "MT" -> "MLT"
          [] c = "NL" -> "NLD"
          [] c = "PL" -> "POL"
          [] c = "PT" -> "PRT"
          [] c = "RO" -> "ROU"
          [] c = "SK" -> "SVK"
          [] c = "SI" -> "SVN"
          [] c = "ES" -> "ESP"
          [] c = "SE" -> "SWE"
          [] c = "US" -> "USA"
          [] c = "CN" -> "CHN"
          [] c = "VN" -> "VNM"]

\* the states of data/country_codes_iso_3166.csv: "missing"; "present" (the
\* rows above); "present_eu" (the rows above and a row of its own for EU);
\* "unreadable" (pd.read_csv raises); "malformed" (a column is missing or a
\* cell is not a string, so building the dict raises)
FileStates == {"missing", "present", "present_eu", "unreadable", "malformed"}

\* the file is read and every row gives an entry
FileLoads(file) == file \in {"present", "present_eu"}

\* the (Alpha-2 code, Country) entries built from the rows of the file
FileCountryRows(file) ==
    IF file = "present_eu"
    THEN [c \in CsvCodes \cup {"EU"} |->
            IF c = "EU" THEN "Europe" ELSE CsvCountryRows[c]]
    ELSE CsvCountryRows

\* faulty variant: EU is added only where the file has no row for it
LoadCountryCodesFileWins(file) ==
    IF FileLoads(file)
    THEN [c \in DOMAIN FileCountryRows(file) \cup {"EU"} |->
            IF c \in DOMAIN FileCountryRows(file) THEN FileCountryRows(file)[c]
            ELSE "European Union"]
    ELSE DefaultMapping

LoadCountryCodes(file) ==
    IF FileLoads(file)
    THEN [c \in DOMAIN FileCountryRows(file) \cup {"EU"} |->
            IF c = "EU" THEN "European Union" ELSE FileCountryRows(file)[c]]
    ELSE DefaultMapping

----------------------------------------------------------------------------
(* clean_event_data *)

\* faulty variant: a supplied name wins over a resolving code
ImposingCountryNameFirst(event, code_to_name) ==
    IF event.imposing_country_name.t # "absent"
    THEN event.imposing_country_name
    ELSE IF STruthy(event.imposing_country_code)
            /\ event.imposing_country_code.v \in DOMAIN code_to_name
    THEN SStr(code_to_name[event.imposing_country_code.v])
    ELSE SStr("")

ImposingCountry(event, code_to_name) ==
    LET imposing_country_code == PyGet(event.imposing_country_code, SStr("")) IN
    IF STruthy(imposing_country_code)
       /\ imposing_country_code.v \in DOMAIN code_to_name
    THEN SStr(code_to_name[imposing_country_code.v])
    ELSE PyGet(event.imposing_country_name, SStr(""))

\* list.index(x): the first position holding x
ListIndex(l, x) == CHOOSE i \in 1..Len(l) : l[i] = x /\ \A j \in 1..(i - 1) : l[j] # x

\* len(original_names) raises TypeError when targeted_country_names is null
TargetedRaises(event, code_to_name) ==
    LET targeted_country_codes == PyGet(event.targeted_country_codes, TList(<<>>)) IN
    /\ TTruthy(targeted_country_codes)
    /\ event.targeted_country_names.t = "none"
    /\ \E i \in 1..Len(targeted_country_codes.l) :
           targeted_country_codes.l[i] \notin DOMAIN code_to_name

TargetedCountries(event, code_to_name) ==
    LET targeted_country_codes == PyGet(event.targeted_country_codes, TList(<<>>))
        original_names == PyGet(event.targeted_country_names, TList(<<>>)).l
    IN
    IF TTruthy(targeted_country_codes)
    THEN TList([i \in 1..Len(targeted_country_codes.l) |->
                LET code == targeted_country_codes.l[i]
                    idx == ListIndex(targeted_country_codes.l, code)
                IN IF code \in DOMAIN code_to_name THEN code_to_name[code]
                   ELSE IF idx <= Len(original_names) THEN original_names[idx]
                   ELSE code])
    ELSE PyGet(event.targeted_country_names, TList(<<>>))

\* faulty variant: the segments of the string are neither trimmed nor filtered
CoerceListFieldRawSplit(x) ==
    LET value == PyGet(x, LList(<<>>)) IN
    IF value.t = "str" THEN LList(StrSplit(value.s, ",")) ELSE value

\* value = tariff_data.get(field, []); if isinstance(value, str):
\*     value = [seg.strip() for seg in value.split(",") if seg.strip()]
CoerceListField(x) ==
    LET value == PyGet(x, LList(<<>>)) IN
    IF value.t = "str"
    THEN LET segs == StrSplit(value.s, ",")
             stripped == [i \in 1..Len(segs) |-> StrStrip(segs[i])]
         IN LList(SelectSeq(stripped, LAMBDA seg : seg # <<>>))
    ELSE value

\* the cleaned_event dict built for one raw event that is not dropped
CleanEvent(event, code_to_name) ==
    [id |-> PyGet(event.id, SStr("")),
     extraction_date |-> NormalizeDate(PyGet(event.extraction_date, DStr(<<>>))),
     imposing_country |-> ImposingCountry(event, code_to_name),
     imposing_country_code |-> PyGet(event.imposing_country_code, SStr("")),
     targeted_countries |-> TargetedCountries(event, code_to_name),
     targeted_country_codes |-> PyGet(event.targeted_country_codes, TList(<<>>)),
     measure_type |-> PyGet(event.measure_type, SStr("")),
     affected_industries |-> CoerceListField(event.affected_industries),
     affected_products |-> CoerceListField(event.affected_products),
     hs_product_categories |-> CoerceListField(event.hs_product_categories),
     main_tariff_rate |-> PyGet(event.main_tariff_rate, RNone),
     tariff_rates |-> CoerceListField(event.tariff_rates),
     announcement_date |-> NormalizeDate(PyGet(event.announcement_date, DStr(<<>>))),
     implementation_date |-> NormalizeDate(PyGet(event.implementation_date, DStr(<<>>))),
     expiration_date |-> NormalizeDate(PyGet(event.expiration_date, DStr(<<>>)))]

RECURSIVE CleanLoopBreak(_, _, _, _)
\* faulty variant: the loop ends at the first record without tariff data
CleanLoopBreak(evs, i, code_to_name, acc) ==
    IF i > Len(evs) THEN acc
    ELSE IF TariffDataFalsy(evs[i]) THEN acc
    ELSE CleanLoopBreak(evs, i + 1, code_to_name,
                        Append(acc, CleanEvent(evs[i], code_to_name)))

RECURSIVE CleanLoop(_, _, _, _)
\* for event in events: ... continue / cleaned_events.append(cleaned_event)
CleanLoop(evs, i, code_to_name, acc) ==
    IF i > Len(evs) THEN acc
    ELSE IF TariffDataFalsy(evs[i]) THEN CleanLoop(evs, i + 1, code_to_name, acc)
    ELSE CleanLoop(evs, i + 1, code_to_name,
                   Append(acc, CleanEvent(evs[i], code_to_name)))

\* tariff_data.get(...) raises AttributeError when tariffs_v2 is a string
TariffDataRaises(event) == event.tv = "str"

\* re.match(pattern, date_str) raises TypeError when date_str is a number
NormalizeDateRaises(event) ==
    \E f \in {"extraction_date", "announcement_date", "implementation_date",
              "expiration_date"} : event[f].t = "int"

\* whether the call ends in an exception instead of returning
CleanEventDataRaises(evs, file) ==
    \E i \in 1..Len(evs) :
        /\ ~TariffDataFalsy(evs[i])
        /\ \/ TariffDataRaises(evs[i])
           \/ TargetedRaises(evs[i], LoadCountryCodes(file))
           \/ NormalizeDateRaises(evs[i])

CleanEventData(evs, file) ==
    IF evs = <<>> THEN <<>>
    ELSE CleanLoop(evs, 1, LoadCountryCodes(file), <<>>)

----------------------------------------------------------------------------
(* Raw events *)

\* a raw event whose tariffs_v2 holds only a measure_type
BaseEvent ==
    [id |-> SStr("e1"),
     extraction_date |-> DAbsent,
     tv |-> "dict",
     imposing_country_code |-> SAbsent,
     imposing_country_name |-> SAbsent,
     targeted_country_codes |-> TAbsent,
     targeted_country_names |-> TAbsent,
     measure_type |-> SStr("new tariff"),
     affected_industries |-> LAbsent,
     affected_products |-> LAbsent,
     hs_product_categories |-> LAbsent,
     main_tariff_rate |-> RAbsent,
     tariff_rates |-> LAbsent,
     announcement_date |-> DAbsent,
     implementation_date |-> DAbsent,
     expiration_date |-> DAbsent]

\* tariffs_v2 present and empty: {}
EmptyTariffEvent == [BaseEvent EXCEPT !.measure_type = SAbsent]

\* no tariffs_v2 key, and tariffs_v2: null
NoTariffEvent == [EmptyTariffEvent EXCEPT !.tv = "absent"]
NullTariffEvent == [EmptyTariffEvent EXCEPT !.tv = "none"]

PresenceEvents == {BaseEvent, EmptyTariffEvent, NoTariffEvent, NullTariffEvent}

ImposingEvents ==
    {[BaseEvent EXCEPT !.imposing_country_code = c, !.imposing_country_name = n] :
        c \in {SAbsent, SNone, SStr(""), SStr("US"), SStr("VN"), SStr("XX")},
        n \in {SAbsent, SNone, SStr("America")}}

TargetedEvents ==
    {[BaseEvent EXCEPT !.targeted_country_codes = c, !.targeted_country_names = n] :
        c \in {TAbsent, TNone} \cup {TList(l) : l \in SeqsUpTo({"CN", "XX", "YY"}, MaxCodes)},
        n \in {TAbsent, TNone} \cup {TList(l) : l \in SeqsUpTo({"Aland", "Bland"}, MaxCodes)}}

ListFields ==
    {"affected_industries", "affected_products", "hs_product_categories", "tariff_rates"}

ListFieldValues ==
    {LNone}
    \cup {LStr(s) : s \in SeqsUpTo({"a", " ", ","}, MaxStrLen)}
    \cup {LList(l) : l \in SeqsUpTo({<<"a">>, <<" ", "b">>}, MaxListLen)}

ListFieldEvents ==
    {[BaseEvent EXCEPT ![f] = x] : f \in ListFields, x \in ListFieldValues}

DateFields == {"extraction_date", "implementation_date", "expiration_date"}

DateEvents ==
    {[BaseEvent EXCEPT !.announcement_date = DStr(d)] :
        d \in SeqsUpTo(DateAlphabet, MaxEventDateLen) \cup DateSamples}
    \cup {[BaseEvent EXCEPT ![f] = x] :
            f \in DateFields \cup {"announcement_date"},
            x \in {DNone} \cup {DStr(d) : d \in DateSamples}}

\* records of the wrong type: a string where tariffs_v2 should be a mapping,
\* a number where a date should be a string
MalformedEvents ==
    {[EmptyTariffEvent EXCEPT !.tv = "str"]}
    \cup {[BaseEvent EXCEPT ![f] = DInt] : f \in DateFields \cup {"announcement_date"}}

\* every shape of raw event the model feeds in, one at a time
WideEvents ==
    PresenceEvents \cup ImposingEvents \cup TargetedEvents
    \cup ListFieldEvents \cup DateEvents \cup MalformedEvents

\* the shapes that are combined into longer batches
NarrowEvents ==
    { BaseEvent,
      [BaseEvent EXCEPT !.id = SStr("e2"), !.imposing_country_code = SStr("US"),
                        !.imposing_country_name = SStr("America")],
      [BaseEvent EXCEPT !.id = SStr("e3"),
                        !.targeted_country_codes = TList(<<"XX", "XX">>),
                        !.targeted_country_names = TList(<<"Aland", "Bland">>)],
      [BaseEvent EXCEPT !.id = SStr("e4"),
                        !.targeted_country_names = TList(<<"Aland">>)],
      [BaseEvent EXCEPT !.id = SStr("e5"), !.affected_industries = LNone,
                        !.announcement_date = DStr(QuarterSample)],
      [BaseEvent EXCEPT !.id = SStr("e6"),
                        !.targeted_country_codes = TList(<<"XX">>),
                        !.targeted_country_names = TNone],
      [EmptyTariffEvent EXCEPT !.id = SStr("e7")],
      [NoTariffEvent EXCEPT !.id = SStr("e8")],
      [NullTariffEvent EXCEPT !.id = SAbsent] }

Batches ==
    {<<e>> : e \in WideEvents} \cup SeqsUpTo(NarrowEvents, MaxEvents)

----------------------------------------------------------------------------
(* The batch specification: one call of clean_event_data on a raw batch *)

Init ==
    /\ csv_file \in {"missing", "present"}
    /\ events \in Batches
    /\ cleaned_events = <<>>
    /\ date_str = <<>>
    /\ date_out = <<>>
    /\ previous = <<>>
    /\ events_df = <<>>
    /\ map_type = ""
    /\ map_rows = {}
    /\ stats = <<>>
    /\ SessionUnused
    /\ pc = "start"

CleanEventDataCall ==
    /\ pc = "start"
    /\ IF CleanEventDataRaises(events, csv_file)
       THEN /\ pc' = "raised"
            /\ UNCHANGED cleaned_events
       ELSE /\ pc' = "done"
            /\ cleaned_events' = CleanEventData(events, csv_file)
    /\ UNCHANGED <<csv_file, events, date_str, date_out>>
    /\ UNCHANGED laterVars
    /\ UNCHANGED sessionVars

Next == CleanEventDataCall

Spec == Init /\ [][Next]_vars

----------------------------------------------------------------------------
(* Claims about clean_event_data, checked under Spec *)

\* the table the call used
Reference == LoadCountryCodes(csv_file)

\* the raw events that carry tariff data, and the raw event behind the k-th
\* cleaned event (C3 establishes this correspondence)
KeptIndexes == {i \in 1..Len(events) : ~TariffDataFalsy(events[i])}
SrcIndex(k) == CHOOSE i \in KeptIndexes : Cardinality({j \in KeptIndexes : j <= i}) = k
RawOf(k) == events[SrcIndex(k)]

IsEmptyDict(event) ==
    event.tv = "dict" /\ \A key \in TariffKeys : event[key].t = "absent"

\* a cleaned event with every field at its default
DefaultCleanEvent(id) ==
    [id |-> id,
     extraction_date |-> DStr(<<>>),
     imposing_country |-> SStr(""),
     imposing_country_code |-> SStr(""),
     targeted_countries |-> TList(<<>>),
     targeted_country_codes |-> TList(<<>>),
     measure_type |-> SStr(""),
     affected_industries |-> LList(<<>>),
     affected_products |-> LList(<<>>),
     hs_product_categories |-> LList(<<>>),
     main_tariff_rate |-> RNone,
     tariff_rates |-> LList(<<>>),
     announcement_date |-> DStr(<<>>),
     implementation_date |-> DStr(<<>>),
     expiration_date |-> DStr(<<>>)]

\* C1: in every cleaned event the targeted_countries list and the
\* targeted_country_codes list have the same length.
C1_LengthInvariant ==
    pc = "done" =>
        \A k \in 1..Len(cleaned_events) :
            LET out == cleaned_events[k] IN
            (out.targeted_countries.t = "list" /\ out.targeted_country_codes.t = "list")
                => Len(out.targeted_countries.l) = Len(out.targeted_country_codes.l)

\* C2: a raw event whose tariffs_v2 is present but empty is not dropped: it
\* appears in the output with every field at its default.
C2_EmptyTariffKept ==
    pc = "done" =>
        \A i \in 1..Len(events) :
            IsEmptyDict(events[i]) =>
                \E k \in 1..Len(cleaned_events) :
                    cleaned_events[k] = DefaultCleanEvent(PyGet(events[i].id, SStr("")))

\* C3: a raw event without a tariffs_v2 key never appears in the output, and
\* the raw events that carry tariff data appear exactly once each, in input
\* order, whatever the other records of the batch are.
C3_DropAbsentKeepOrder ==
    pc = "done" =>
        \E f \in [1..Len(cleaned_events) -> 1..Len(events)] :
            /\ \A k \in 1..Len(cleaned_events) :
                  /\ cleaned_events[k] = CleanEvent(events[f[k]], Reference)
                  /\ events[f[k]].tv # "absent"
                  /\ \A j \in 1..(k - 1) : f[j] < f[k]
            /\ \A i \in 1..Len(events) :
                  (events[i].tv = "dict" /\ ~IsEmptyDict(events[i]))
                      => \E k \in 1..Len(cleaned_events) : f[k] = i

\* a batch where a record without tariffs_v2 precedes one that is kept
C3_Witness ==
    /\ pc = "done"
    /\ Len(events) = 2
    /\ events[1].tv = "absent"
    /\ events[2].tv = "dict" /\ ~IsEmptyDict(events[2])
    /\ Len(cleaned_events) = 1
    /\ cleaned_events[1].id = events[2].id

\* C4: every designated list field of every cleaned event, and both
\* targeted-country lists, is a list and never null.
C4_ListFieldsAreLists ==
    pc = "done" =>
        \A k \in 1..Len(cleaned_events) :
            /\ \A f \in ListFields : cleaned_events[k][f].t = "list"
            /\ cleaned_events[k].targeted_countries.t = "list"
            /\ cleaned_events[k].targeted_country_codes.t = "list"

\* C5: the i-th targeted name is the reference name of code i, else the raw
\* name at the same index i, else the code itself.
C5_TargetedPositional ==
    pc = "done" =>
        \A k \in 1..Len(cleaned_events) :
            LET raw == RawOf(k)
                out == cleaned_events[k].targeted_countries
            IN
            (TTruthy(raw.targeted_country_codes) /\ raw.targeted_country_names.t # "none") =>
                /\ out.t = "list"
                /\ Len(out.l) = Len(raw.targeted_country_codes.l)
                /\ \A i \in 1..Len(out.l) :
                      LET code == raw.targeted_country_codes.l[i] IN
                      out.l[i] =
                          IF code \in DOMAIN Reference THEN Reference[code]
                          ELSE IF i <= Len(raw.targeted_country_names.l)
                          THEN raw.targeted_country_names.l[i]
                          ELSE code

AllDateFields ==
    {"extraction_date", "announcement_date", "implementation_date", "expiration_date"}

HasSpace(s) == \E i \in 1..Len(s) : s[i] = " "

DigitValue ==
    [c \in Digits |->
        CASE c = "0" -> 0 [] c = "1" -> 1 [] c = "2" -> 2 [] c = "3" -> 3
          [] c = "4" -> 4 [] c = "5" -> 5 [] c = "6" -> 6 [] c = "7" -> 7
          [] c = "8" -> 8 [] c = "9" -> 9]

\* "YYYY-MM-DD" with a month of 01..12 and a day of 01..31
IsIsoDate(s) ==
    /\ Len(s) = 10
    /\ \A i \in {1, 2, 3, 4, 6, 7, 9, 10} : s[i] \in Digits
    /\ s[5] = "-" /\ s[8] = "-"
    /\ 10 * DigitValue[s[6]] + DigitValue[s[7]] \in 1..12
    /\ 10 * DigitValue[s[9]] + DigitValue[s[10]] \in 1..31

\* C8 as stated: every date field of every cleaned event is empty or a valid
\* ISO calendar date.
C8_DatesIsoOrEmpty ==
    pc = "done" =>
        \A k \in 1..Len(cleaned_events) : \A f \in AllDateFields :
            LET out == cleaned_events[k][f] IN
            out.t = "str" /\ (out.v = <<>> \/ IsIsoDate(out.v))

\* C8 as amended: every date field of every cleaned event is a string without
\* a space, so nothing that followed a space (a time of day) is left in it.
C8_DatesCarryNoSpace ==
    pc = "done" =>
        \A k \in 1..Len(cleaned_events) : \A f \in AllDateFields :
            LET out == cleaned_events[k][f] IN
            out.t = "str" /\ ~HasSpace(out.v)

\* a timestamp went in and its date part came out
C8_Witness ==
    /\ pc = "done"
    /\ \E k \in 1..Len(cleaned_events) :
          /\ RawOf(k).announcement_date = DStr(TimestampSample)
          /\ cleaned_events[k].announcement_date = DStr(SubSeq(TimestampSample, 1, 10))

\* the segments of a comma-delimited string, stated by positions: the text
\* between two neighbouring commas (or string ends), from its first to its
\* last character that is not white space, when it has such a character
CommaBounds(s) == {0, Len(s) + 1} \cup {i \in 1..Len(s) : s[i] = ","}
SegmentEnd(s, a) ==
    CHOOSE b \in CommaBounds(s) : b > a /\ \A c \in CommaBounds(s) : c > a => b <= c
Solid(s, a) == {j \in (a + 1)..(SegmentEnd(s, a) - 1) : s[j] \notin Whitespace}
SegmentStarts(s) == {a \in CommaBounds(s) \ {Len(s) + 1} : Solid(s, a) # {}}
StatedSegments(s) ==
    [n \in 1..Cardinality(SegmentStarts(s)) |->
        LET a == CHOOSE x \in SegmentStarts(s) :
                    Cardinality({y \in SegmentStarts(s) : y <= x}) = n
            lo == CHOOSE j \in Solid(s, a) : \A j2 \in Solid(s, a) : j <= j2
            hi == CHOOSE j \in Solid(s, a) : \A j2 \in Solid(s, a) : j >= j2
        IN SubSeq(s, lo, hi)]

\* C10: a comma-delimited string becomes the list of its trimmed, non-empty
\* segments in order, a list passes through unchanged, an absent field
\* becomes the empty list.
C10_ListCoercion ==
    pc = "done" =>
        \A k \in 1..Len(cleaned_events) : \A f \in ListFields :
            LET src == RawOf(k)[f]
                out == cleaned_events[k][f]
            IN
            /\ src.t = "str" => out = LList(StatedSegments(src.s))
            /\ src.t = "list" => out = src
            /\ src.t = "absent" => out = LList(<<>>)

\* "a, a" came out as the two trimmed segments
C10_Witness ==
    /\ pc = "done"
    /\ \E k \in 1..Len(cleaned_events) :
          /\ RawOf(k).affected_products = LStr(<<"a", ",", " ", "a">>)
          /\ cleaned_events[k].affected_products = LList(<< <<"a">>, <<"a">> >>)

\* C11: normalization never raises on a malformed record: whatever the raw
\* fields hold, the call completes normally.
C11_NeverRaises == pc # "raised"

----------------------------------------------------------------------------
(* The reference specification: one process calls clean_event_data twice  *)
(* on the same raw batch while the reference file may be created, removed *)
(* or replaced in between.  Every call runs load_country_codes anew.      *)

RefBatches ==
    {<<e>> : e \in ImposingEvents \cup TargetedEvents}
    \cup SeqsUpTo(NarrowEvents, MaxEvents)

InitRef ==
    /\ csv_file \in {"missing", "present"}
    /\ events \in RefBatches
    /\ cleaned_events = <<>>
    /\ date_str = <<>>
    /\ date_out = <<>>
    /\ previous = <<>>
    /\ events_df = <<>>
    /\ map_type = ""
    /\ map_rows = {}
    /\ stats = <<>>
    /\ SessionUnused
    /\ pc = "start"

\* the environment creates or removes data/country_codes_iso_3166.csv
ReferenceFileChanges ==
    /\ pc \in {"start", "done"}
    /\ csv_file' = IF csv_file = "missing" THEN "present" ELSE "missing"
    /\ UNCHANGED <<events, cleaned_events, date_str, date_out, pc>>
    /\ UNCHANGED laterVars
    /\ UNCHANGED sessionVars

\* a second clean_event_data(events) in the same process
CleanEventDataAgain ==
    /\ pc = "done"
    /\ IF CleanEventDataRaises(events, csv_file)
       THEN /\ pc' = "raised"
            /\ UNCHANGED <<cleaned_events, previous>>
       ELSE /\ pc' = "again"
            /\ previous' = cleaned_events
            /\ cleaned_events' = CleanEventData(events, csv_file)
    /\ UNCHANGED <<csv_file, events, date_str, date_out>>
    /\ UNCHANGED <<events_df, map_type, map_rows, stats>>
    /\ UNCHANGED sessionVars

NextRef == CleanEventDataCall \/ ReferenceFileChanges \/ CleanEventDataAgain

SpecRef == InitRef /\ [][NextRef]_vars

\* C12: the country reference is loaded once per process and never changes:
\* normalising the same raw input twice in one process gives equal output,
\* whatever happens to the backing file in between.
C12_ReferenceLoadedOnce ==
    pc = "again" => cleaned_events = previous

----------------------------------------------------------------------------
(* events_to_dataframe *)

\* the country codes of the geo inputs, with their characters
GeoCodes == {"", "US", "CN", "DE", "EU", "XX", "DEU"}

CodeChars ==
    [c \in GeoCodes |->
        CASE c = "" -> <<>>
          [] c = "US" -> <<"U", "S">>
          [] c = "CN" -> <<"C", "N">>
          [] c = "DE" -> <<"D", "E">>
          [] c = "EU" -> <<"E", "U">>
          [] c = "XX" -> <<"X", "X">>
          [] c = "DEU" -> <<"D", "E", "U">>]

CodeOf(chars) == CHOOSE c \in GeoCodes : CodeChars[c] = chars

\* a DataFrame cell holding a string
DfStr(s) == [t |-> "str", l |-> <<>>, s |-> s]

RECURSIVE JoinCodes(_)
\* ", ".join(str(item) for item in x)
JoinCodes(l) ==
    IF l = <<>> THEN <<>>
    ELSE IF Len(l) = 1 THEN CodeChars[l[1]]
    ELSE CodeChars[l[1]] \o <<",", " ">> \o JoinCodes(Tail(l))

\* a list cell becomes its joined string, any other cell is kept
ListCell(x) ==
    IF x.t = "list" THEN DfStr(JoinCodes(x.l))
    ELSE [t |-> x.t, l |-> <<>>, s |-> <<>>]

\* the country names and codes that stand in targeted_countries lists, with
\* their characters
TableNames ==
    {"", "Aland", "America", "Bland", "CN", "China", "DE", "DEU", "EU",
     "Europe", "European Union", "Germany", "US", "USA", "United States",
     "United States of America", "VN", "Viet Nam", "XX", "YY"}

NameChars ==
    [n \in TableNames |->
        CASE n = "" -> <<>>
          [] n = "Aland" -> <<"A", "l", "a", "n", "d">>
          [] n = "America" -> <<"A", "m", "e", "r", "i", "c", "a">>
          [] n = "Bland" -> <<"B", "l", "a", "n", "d">>
          [] n = "CN" -> <<"C", "N">>
          [] n = "China" -> <<"C", "h", "i", "n", "a">>
          [] n = "DE" -> <<"D", "E">>
          [] n = "DEU" -> <<"D", "E", "U">>
          [] n = "EU" -> <<"E", "U">>
          [] n = "Europe" -> <<"E", "u", "r", "o", "p", "e">>
          [] n = "European Union" -> <<"E", "u", "r", "o", "p", "e", "a", "n", " ", "U", "n", "i", "o", "n">>
          [] n = "Germany" -> <<"G", "e", "r", "m", "a", "n", "y">>
          [] n = "US" -> <<"U", "S">>
          [] n = "USA" -> <<"U", "S", "A">>
          [] n = "United States" -> <<"U", "n", "i", "t", "e", "d", " ", "S", "t", "a", "t", "e", "s">>
          [] n = "United States of America" -> <<"U", "n", "i", "t", "e", "d", " ", "S", "t", "a", "t", "e", "s", " ", "o", "f", " ", "A", "m", "e", "r", "i", "c", "a">>
          [] n = "VN" -> <<"V", "N">>
          [] n = "Viet Nam" -> <<"V", "i", "e", "t", " ", "N", "a", "m">>
          [] n = "XX" -> <<"X", "X">>
          [] n = "YY" -> <<"Y", "Y">>]

RECURSIVE JoinNames(_)
\* ", ".join(str(item) for item in x) over country names
JoinNames(l) ==
    IF l = <<>> THEN <<>>
    ELSE IF Len(l) = 1 THEN NameChars[l[1]]
    ELSE NameChars[l[1]] \o <<",", " ">> \o JoinNames(Tail(l))

NamesCell(x) ==
    IF x.t = "list" THEN DfStr(JoinNames(x.l))
    ELSE [t |-> x.t, l |-> <<>>, s |-> <<>>]

\* an element of a list field is a string (its characters) or a dict, written
\* <<"dict", "name", n1, .., "repr", r1, ..>> with the characters of its
\* 'name' value (left out with the "name" mark when it has no such key) and of
\* its string form str(item)
DictItem(name, repr) == <<"dict", "name">> \o name \o <<"repr">> \o repr
DictItemNoName(repr) == <<"dict", "repr">> \o repr
IsDictItem(item) == item # <<>> /\ item[1] = "dict"
ReprMark(item) == CHOOSE i \in 1..Len(item) : item[i] = "repr"

\* faulty variant: a dict element always contributes its string form
ItemStrRepr(item) ==
    IF ~(item # <<>> /\ item[1] = "dict") THEN item
    ELSE SubSeq(item, (CHOOSE i \in 1..Len(item) : item[i] = "repr") + 1, Len(item))

\* str(item) if not isinstance(item, dict) else str(item.get("name", str(item)))
ItemStr(item) ==
    IF ~IsDictItem(item) THEN item
    ELSE IF item[2] = "name" THEN SubSeq(item, 3, ReprMark(item) - 1)
    ELSE SubSeq(item, ReprMark(item) + 1, Len(item))

RECURSIVE JoinItems(_)
\* ", ".join([...]) over the elements of a list field
JoinItems(l) ==
    IF l = <<>> THEN <<>>
    ELSE IF Len(l) = 1 THEN ItemStr(l[1])
    ELSE ItemStr(l[1]) \o <<",", " ">> \o JoinItems(Tail(l))

ItemsCell(x) == IF x.t = "list" THEN LStr(JoinItems(x.l)) ELSE x

\* events_to_dataframe on a list already in cleaned format: one row per
\* event with the event's keys as columns; an empty list gives the empty
\* DataFrame
EventsToDataframe(cleaned) ==
    [i \in 1..Len(cleaned) |->
        [id |-> cleaned[i].id,
         extraction_date |-> cleaned[i].extraction_date,
         imposing_country |-> cleaned[i].imposing_country,
         imposing_country_code |-> cleaned[i].imposing_country_code,
         targeted_countries |-> NamesCell(cleaned[i].targeted_countries),
         targeted_country_codes |-> ListCell(cleaned[i].targeted_country_codes),
         measure_type |-> cleaned[i].measure_type,
         affected_industries |-> ItemsCell(cleaned[i].affected_industries),
         affected_products |-> ItemsCell(cleaned[i].affected_products),
         hs_product_categories |-> ItemsCell(cleaned[i].hs_product_categories),
         main_tariff_rate |-> cleaned[i].main_tariff_rate,
         tariff_rates |-> ItemsCell(cleaned[i].tariff_rates),
         announcement_date |-> cleaned[i].announcement_date,
         implementation_date |-> cleaned[i].implementation_date,
         expiration_date |-> cleaned[i].expiration_date]]

----------------------------------------------------------------------------
(* create_world_map *)

\* eu_countries
EuCountries ==
    {"AT", "BE", "BG", "HR", "CY", "CZ", "DK", "EE", "FI", "FR", "DE",
     "GR", "HU", "IE", "IT", "LV", "LT", "LU", "MT", "NL", "PL", "PT",
     "RO", "SK", "SI", "ES", "SE"}

\* the mapping used when the CSV cannot be read
FallbackIso3 ==
    [c \in {"US", "CN", "CA", "MX", "EU", "GB", "JP", "KR", "IN", "AU", "BR",
            "RU", "NG", "ZA", "CH", "NO", "WW"} |->
        CASE c = "US" -> "USA"
          [] c = "CN" -> "CHN"
          [] c = "CA" -> "CAN"
          [] c = "MX" -> "MEX"
          [] c = "EU" -> "EUR"
          [] c = "GB" -> "GBR"
          [] c = "JP" -> "JPN"
          [] c = "KR" -> "KOR"
          [] c = "IN" -> "IND"
          [] c = "AU" -> "AUS"
          [] c = "BR" -> "BRA"
          [] c = "RU" -> "RUS"
          [] c = "NG" -> "NGA"
          [] c = "ZA" -> "ZAF"
          [] c = "CH" -> "CHE"
          [] c = "NO" -> "NOR"
          [] c = "WW" -> "WLD"]

\* iso2_to_iso3
Iso2ToIso3(file) ==
    IF FileLoads(file)
    THEN [c \in CsvCodes \cup {"EU", "WW"} |->
            IF c = "EU" THEN "EUR"
            ELSE IF c = "WW" THEN "WLD"
            ELSE CsvAlpha3Rows[c]]
    ELSE FallbackIso3

\* iso2_to_iso3.get(x, x)
IsoGet(iso, x) == IF x \in DOMAIN iso THEN iso[x] ELSE x

\* the values of the imposing_country_code column that value_counts counts
\* (it leaves out None)
ImposingCounted(df) ==
    LET counted == SelectSeq(df, LAMBDA row : row.imposing_country_code.t = "str")
    IN [i \in 1..Len(counted) |-> counted[i].imposing_country_code.v]

\* the codes one targeted_country_codes cell adds to all_targeted_codes
CellCodes(cell) ==
    IF cell.t = "list" THEN cell.l
    ELSE IF cell.t = "str"
    THEN LET parts == StrSplit(cell.s, ",")
         IN [i \in 1..Len(parts) |-> CodeOf(StrStrip(parts[i]))]
    ELSE <<>>

RECURSIVE TargetedCounted(_)
\* all_targeted_codes
TargetedCounted(df) ==
    IF df = <<>> THEN <<>>
    ELSE CellCodes(Head(df).targeted_country_codes) \o TargetedCounted(Tail(df))

\* how often a code occurs in a list of codes
Occurrences(codes, c) == Cardinality({i \in 1..Len(codes) : codes[i] = c})

\* value_counts() with the iso3_code column added
CountryCounts(codes, iso) ==
    {[country_code |-> c, count |-> Occurrences(codes, c),
      iso3_code |-> IsoGet(iso, c)] : c \in {codes[i] : i \in 1..Len(codes)}}

\* faulty variant: the bloc row is kept beside its member rows
ExpandRowsKeepBloc(counts, iso) ==
    {[country_code |-> r.country_code, count |-> r.count,
      iso3_code |-> r.iso3_code, src |-> r.country_code] : r \in counts}
    \cup {[country_code |-> m, count |-> r.count, iso3_code |-> IsoGet(iso, m),
           src |-> "EU"] :
            m \in EuCountries, r \in {x \in counts : x.country_code = "EU"}}

\* expanded_data: the EU row gives one row per member with the same count,
\* every other row is copied (src tells the copies of one member apart)
ExpandRows(counts, iso) ==
    {[country_code |-> r.country_code, count |-> r.count,
      iso3_code |-> r.iso3_code, src |-> r.country_code] :
        r \in {x \in counts : x.country_code # "EU"}}
    \cup {[country_code |-> m, count |-> r.count, iso3_code |-> IsoGet(iso, m),
           src |-> "EU"] :
            m \in EuCountries, r \in {x \in counts : x.country_code = "EU"}}

RECURSIVE SumCounts(_)
SumCounts(rows) ==
    IF rows = {} THEN 0
    ELSE LET r == CHOOSE x \in rows : TRUE
         IN r.count + SumCounts(rows \ {r})

\* groupby(["country_code", "iso3_code"])["count"].sum().reset_index()
GroupBy(expanded) ==
    {[country_code |-> k[1], iso3_code |-> k[2],
      count |-> SumCounts({r \in expanded :
                              r.country_code = k[1] /\ r.iso3_code = k[2]})] :
        k \in {<<r.country_code, r.iso3_code>> : r \in expanded}}

\* create_world_map: fig is FALSE where it returns None, rows is the final
\* country_counts whose iso3_code and count columns the choropleth plots
CreateWorldMap(df, mt, file) ==
    LET iso == Iso2ToIso3(file)
        codes == IF mt = "imposing" THEN ImposingCounted(df)
                 ELSE TargetedCounted(df)
    IN IF df = <<>> \/ codes = <<>>
       THEN [fig |-> FALSE, rows |-> {}]
       ELSE [fig |-> TRUE,
             rows |-> GroupBy(ExpandRows(CountryCounts(codes, iso), iso))]

----------------------------------------------------------------------------
(* The map specification: a raw batch is cleaned, turned into a DataFrame *)
(* and plotted, as app.py and the dashboard pages do                      *)

MaxGeoEvents == 2   \* longest raw batch that is plotted

GeoEvents ==
    {[BaseEvent EXCEPT !.imposing_country_code = c] :
        c \in {SAbsent, SNone} \cup {SStr(x) : x \in GeoCodes}}
    \cup {[BaseEvent EXCEPT !.imposing_country_code = SNone,
                            !.targeted_country_codes = c] :
            c \in {TNone, TList(<<>>), TList(<<"CN">>), TList(<<"EU">>),
                   TList(<<"CN", "EU">>), TList(<<"DE", "XX">>),
                   TList(<<"DE", "DEU">>)}}
    \cup {EmptyTariffEvent}

GeoBatches == SeqsUpTo(GeoEvents, MaxGeoEvents)

InitGeo ==
    /\ csv_file \in {"missing", "present"}
    /\ events \in GeoBatches
    /\ cleaned_events = <<>>
    /\ date_str = <<>>
    /\ date_out = <<>>
    /\ previous = <<>>
    /\ events_df = <<>>
    /\ map_type = ""
    /\ map_rows = {}
    /\ stats = <<>>
    /\ SessionUnused
    /\ pc = "start"

EventsToDataframeCall ==
    /\ pc = "done"
    /\ events_df' = EventsToDataframe(cleaned_events)
    /\ pc' = "df"
    /\ UNCHANGED <<csv_file, events, cleaned_events, date_str, date_out>>
    /\ UNCHANGED <<previous, map_type, map_rows, stats>>
    /\ UNCHANGED sessionVars

CreateWorldMapCall ==
    /\ pc = "df"
    /\ \E mt \in {"imposing", "targeted"} :
        LET result == CreateWorldMap(events_df, mt, csv_file)
        IN /\ map_type' = mt
           /\ map_rows' = result.rows
           /\ pc' = IF result.fig THEN "map" ELSE "no_map"
    /\ UNCHANGED <<csv_file, events, cleaned_events, date_str, date_out>>
    /\ UNCHANGED <<previous, events_df, stats>>
    /\ UNCHANGED sessionVars

NextGeo == CleanEventDataCall \/ EventsToDataframeCall \/ CreateWorldMapCall

SpecGeo == InitGeo /\ [][NextGeo]_vars

----------------------------------------------------------------------------
(* Claims about the map *)

\* the codes create_world_map counted, and the rows it plots for one code
CountedCodes ==
    IF map_type = "imposing" THEN ImposingCounted(events_df)
    ELSE TargetedCounted(events_df)
BlocCount == Occurrences(CountedCodes, "EU")
RowsFor(c) == {r \in map_rows : r.country_code = c}
MapIso == Iso2ToIso3(csv_file)
Returned == pc \in {"map", "no_map"}

\* C13: a counted "EU" row is replaced by exactly 27 rows, one per member of
\* eu_countries, each carrying the bloc's full count (on top of the member's
\* own count), and no row is keyed by "EU" or "EUR"; when the only counted
\* code is one "EU", the rows are the 27 member rows, each of count 1.
C13_BlocExpansion ==
    (pc = "map" /\ BlocCount > 0) =>
        /\ \A m \in EuCountries :
            \E r \in map_rows :
                /\ RowsFor(m) = {r}
                /\ r.count = BlocCount + Occurrences(CountedCodes, m)
        /\ Cardinality({r \in map_rows : r.country_code \in EuCountries}) = 27
        /\ \A r \in map_rows :
            /\ r.country_code \notin {"EU", "EUR"}
            /\ r.iso3_code \notin {"EU", "EUR"}
        /\ CountedCodes = <<"EU">> =>
            /\ Cardinality(map_rows) = 27
            /\ \A r \in map_rows : r.count = 1

C13_Witness ==
    /\ pc = "map"
    /\ map_type = "imposing"
    /\ CountedCodes = <<"EU">>
    /\ Cardinality(map_rows) = 27

\* C14: every plotted row is keyed by an alpha-3 code of the reference; a code
\* without an alpha-3 entry gives no row.
C14_RowsKeyedByAlpha3 ==
    pc = "map" =>
        \A r \in map_rows : \E c \in DOMAIN MapIso : r.iso3_code = MapIso[c]

\* the count a territory code is owed: the counted codes translated to it,
\* plus the bloc count where a member translates to it
TerritoryCount(t) ==
    Cardinality({i \in 1..Len(CountedCodes) :
                    CountedCodes[i] # "EU" /\ IsoGet(MapIso, CountedCodes[i]) = t})
    + (IF \E m \in EuCountries : IsoGet(MapIso, m) = t THEN BlocCount ELSE 0)

\* C15: at most one plotted row per territory (iso3) code, and it carries the
\* sum of the counts of all source rows that map to that territory.
C15_OneRowPerTerritory ==
    pc = "map" =>
        \A r \in map_rows :
            /\ {x \in map_rows : x.iso3_code = r.iso3_code} = {r}
            /\ r.count = TerritoryCount(r.iso3_code)

\* the imposing codes of the cleaned events
ImposingCodeOf(k) == cleaned_events[k].imposing_country_code
NoBlocImposed ==
    \A k \in 1..Len(cleaned_events) : ImposingCodeOf(k) # SStr("EU")

\* C16: imposing direction, no bloc codes: the counts of the plotted rows sum
\* to the number of events whose imposing code has an alpha-3 entry.
C16_GeoCountConservation ==
    (Returned /\ map_type = "imposing" /\ NoBlocImposed) =>
        SumCounts(map_rows) =
            Cardinality({k \in 1..Len(cleaned_events) :
                            /\ ImposingCodeOf(k).t = "str"
                            /\ ImposingCodeOf(k).v \in DOMAIN MapIso})

\* C17: imposing direction: an event without an imposing code (absent, null
\* or empty) adds no row and no count; every other event adds one count at
\* its own code.
C17_ImposingSkipsCodeless ==
    (Returned /\ map_type = "imposing" /\ NoBlocImposed) =>
        /\ RowsFor("") = {}
        /\ \A c \in GeoCodes \ {""} :
            SumCounts(RowsFor(c)) =
                Cardinality({k \in 1..Len(cleaned_events) :
                                ImposingCodeOf(k) = SStr(c)})

RECURSIVE TargetedListed(_)
\* the targeted_country_codes lists of the cleaned events, one after another
TargetedListed(cleaned) ==
    IF cleaned = <<>> THEN <<>>
    ELSE (IF Head(cleaned).targeted_country_codes.t = "list"
          THEN Head(cleaned).targeted_country_codes.l ELSE <<>>)
         \o TargetedListed(Tail(cleaned))

\* C18: targeted direction through the whole pipeline: each event adds one
\* count to each code of its targeted_country_codes list and nothing else (an
\* empty list adds no row); the event targeting ["CN", "EU"] gives the 27
\* member rows and one CHN row, all of count 1.
C18_TargetedPerCode ==
    (Returned /\ map_type = "targeted") =>
        LET listed == TargetedListed(cleaned_events) IN
        /\ Occurrences(listed, "EU") = 0 =>
            \A c \in GeoCodes : SumCounts(RowsFor(c)) = Occurrences(listed, c)
        /\ listed = <<"CN", "EU">> =>
            /\ Cardinality(map_rows) = 28
            /\ \A r \in map_rows : r.count = 1
            /\ \A m \in EuCountries : RowsFor(m) # {}
            /\ \E r \in map_rows : r.iso3_code = "CHN"

----------------------------------------------------------------------------
(* calculate_event_statistics *)

RECURSIVE DecimalValue(_)
\* the number a string of digits spells
DecimalValue(ds) ==
    IF ds = <<>> THEN 0
    ELSE 10 * DecimalValue(SubSeq(ds, 1, Len(ds) - 1)) + DigitValue[ds[Len(ds)]]

\* float(x) succeeds: a number, or a string that is digits between optional
\* whitespace (the strings fed in carry no sign, point or exponent)
FloatParses(x) ==
    \/ x.t = "num"
    \/ x.t = "str" /\ StrStrip(x.s) # <<>> /\ AllDigits(StrStrip(x.s))

FloatValue(x) == IF x.t = "num" THEN x.n ELSE DecimalValue(StrStrip(x.s))

RECURSIVE TariffRatesZeroFill(_)
\* faulty variant: a value that does not parse is counted as zero
TariffRatesZeroFill(evs) ==
    IF evs = <<>> THEN <<>>
    ELSE LET rate == Head(evs).main_tariff_rate
         IN (IF rate.t = "none" THEN <<>>
             ELSE IF FloatParses(rate) THEN <<FloatValue(rate)>>
             ELSE <<0>>)
            \o TariffRatesZeroFill(Tail(evs))

RECURSIVE TariffRates(_)
\* tariff_rates: float(main_tariff_rate) of the events where it is not None
\* and float() does not raise
TariffRates(evs) ==
    IF evs = <<>> THEN <<>>
    ELSE LET rate == Head(evs).main_tariff_rate
         IN (IF rate.t # "none" /\ FloatParses(rate)
             THEN <<FloatValue(rate)>> ELSE <<>>)
            \o TariffRates(Tail(evs))

RECURSIVE SumSeq(_)
SumSeq(xs) == IF xs = <<>> THEN 0 ELSE Head(xs) + SumSeq(Tail(xs))

\* round(sum(tariff_rates) / len(tariff_rates), 2), in hundredths; with fewer
\* than 8 non-negative integer rates the quotient is never halfway between
\* two hundredths, so the rounding mode does not matter
AvgTariffRate(rates) ==
    IF rates = <<>> THEN 0
    ELSE (200 * SumSeq(rates) + Len(rates)) \div (2 * Len(rates))

RECURSIVE Dedup(_)
Dedup(xs) ==
    IF xs = <<>> THEN <<>>
    ELSE LET rest == Dedup(SubSeq(xs, 1, Len(xs) - 1))
         IN IF \E i \in 1..Len(rest) : rest[i] = xs[Len(xs)]
            THEN rest ELSE Append(rest, xs[Len(xs)])

\* faulty variant: an event counts each of its industries once
IndustryItemsOnce(ev) ==
    LET x == ev.affected_industries IN
    IF x.t = "list" THEN Dedup(x.l)
    ELSE IF x.t = "str"
    THEN LET segs == StrSplit(x.s, ",")
             stripped == [i \in 1..Len(segs) |-> StrStrip(segs[i])]
         IN Dedup(SelectSeq(stripped, LAMBDA seg : seg # <<>>))
    ELSE <<>>

\* the industries one event adds to the histogram, one entry per increment
IndustryItems(ev) ==
    LET x == ev.affected_industries IN
    IF x.t = "list" THEN x.l
    ELSE IF x.t = "str"
    THEN LET segs == StrSplit(x.s, ",")
             stripped == [i \in 1..Len(segs) |-> StrStrip(segs[i])]
         IN SelectSeq(stripped, LAMBDA seg : seg # <<>>)
    ELSE <<>>

RECURSIVE IndustryIncrements(_)
IndustryIncrements(evs) ==
    IF evs = <<>> THEN <<>>
    ELSE IndustryItems(Head(evs)) \o IndustryIncrements(Tail(evs))

\* a dict of counters: one key per distinct entry, counting its increments
Counter(xs) ==
    [k \in {xs[i] : i \in 1..Len(xs)} |->
        Cardinality({i \in 1..Len(xs) : xs[i] = k})]

\* the country names of the model, in the order sorted() puts them
\* (str comparison by code point)
NameOrder ==
    <<"", "Aland", "America", "Bland", "CN", "China", "DE", "DEU", "EU",
      "Europe", "European Union", "Germany", "US", "USA", "United States",
      "United States of America", "VN", "Viet Nam", "XX", "YY">>

\* faulty variant: the names come out in descending order
SortedNamesDescending(names) ==
    LET asc == SelectSeq(NameOrder, LAMBDA n : n \in names)
    IN [i \in 1..Len(asc) |-> asc[Len(asc) + 1 - i]]

\* sorted(list(names)) for a set of names
SortedNames(names) == SelectSeq(NameOrder, LAMBDA n : n \in names)

\* imposing_countries: the truthy imposing_country values
ImposingNames(evs) ==
    {evs[i].imposing_country.v :
        i \in {k \in 1..Len(evs) : STruthy(evs[k].imposing_country)}}

\* targeted_countries: every element of every targeted_countries list
TargetedNames(evs) ==
    UNION {{evs[i].targeted_countries.l[j] :
                j \in 1..Len(evs[i].targeted_countries.l)} :
            i \in {k \in 1..Len(evs) : evs[k].targeted_countries.t = "list"}}

\* the statistics dict (avg_tariff_rate in hundredths); the product list is
\* not carried
CalculateStatistics(evs) ==
    IF evs = <<>>
    THEN [total_events |-> 0,
          imposing_countries |-> <<>>,
          targeted_countries |-> <<>>,
          measure_types |-> Counter(<<>>),
          avg_tariff_rate |-> 0,
          affected_industries |-> Counter(<<>>)]
    ELSE [total_events |-> Len(evs),
          imposing_countries |-> SortedNames(ImposingNames(evs)),
          targeted_countries |-> SortedNames(TargetedNames(evs)),
          measure_types |-> Counter([i \in 1..Len(evs) |-> evs[i].measure_type]),
          avg_tariff_rate |-> AvgTariffRate(TariffRates(evs)),
          affected_industries |-> Counter(IndustryIncrements(evs))]

----------------------------------------------------------------------------
(* The statistics specification: a raw batch is cleaned and summarised, as *)
(* app.py and process_events_data do                                       *)

MaxStatEvents == 3   \* longest enumerated raw batch that is summarised

RateValues ==
    {RAbsent, RNone, RNum(10), RNum(11),
     RStr(<<"2", "0">>), RStr(<<" ", "7">>), RStr(<<"b", "a", "d">>), RStr(<<>>)}

IndustryValues ==
    {LNone, LList(<<<<"a">>, <<"a">>>>), LList(<<<<"a">>, <<"b">>>>),
     LStr(<<"a", ",", "a">>)}

StatEvents ==
    {[BaseEvent EXCEPT !.main_tariff_rate = r] : r \in RateValues}
    \cup {[BaseEvent EXCEPT !.affected_industries = x] : x \in IndustryValues}

\* events with main_tariff_rate 10, "20", "bad" and None
ExampleRateBatch ==
    <<[BaseEvent EXCEPT !.main_tariff_rate = RNum(10)],
      [BaseEvent EXCEPT !.main_tariff_rate = RStr(<<"2", "0">>)],
      [BaseEvent EXCEPT !.main_tariff_rate = RStr(<<"b", "a", "d">>)],
      [BaseEvent EXCEPT !.main_tariff_rate = RNone]>>

MaxCountryEvents == 2   \* longest batch of events that name countries

CountryStatEvents ==
    {[BaseEvent EXCEPT !.imposing_country_code = SStr("US")],
     [BaseEvent EXCEPT !.imposing_country_name = SStr("America")],
     [BaseEvent EXCEPT !.imposing_country_name = SNone],
     [BaseEvent EXCEPT !.targeted_country_codes = TList(<<"CN", "XX">>),
                       !.targeted_country_names = TList(<<"Aland", "Bland">>)],
     [BaseEvent EXCEPT !.targeted_country_names = TList(<<"Bland", "Aland">>)],
     [BaseEvent EXCEPT !.targeted_country_names = TList(<<"Aland", "Aland">>)],
     [BaseEvent EXCEPT !.imposing_country_name = SStr("China"),
                       !.targeted_country_names = TNone]}

StatBatches ==
    SeqsUpTo(StatEvents, MaxStatEvents) \cup {ExampleRateBatch}
    \cup SeqsUpTo(CountryStatEvents, MaxCountryEvents)

InitStats ==
    /\ csv_file \in {"missing", "present"}
    /\ events \in StatBatches
    /\ cleaned_events = <<>>
    /\ date_str = <<>>
    /\ date_out = <<>>
    /\ previous = <<>>
    /\ events_df = <<>>
    /\ map_type = ""
    /\ map_rows = {}
    /\ stats = <<>>
    /\ SessionUnused
    /\ pc = "start"

CalculateStatisticsCall ==
    /\ pc = "done"
    /\ stats' = CalculateStatistics(cleaned_events)
    /\ pc' = "stats"
    /\ UNCHANGED <<csv_file, events, cleaned_events, date_str, date_out>>
    /\ UNCHANGED <<previous, events_df, map_type, map_rows>>
    /\ UNCHANGED sessionVars

NextStats == CleanEventDataCall \/ CalculateStatisticsCall

SpecStats == InitStats /\ [][NextStats]_vars

----------------------------------------------------------------------------
(* Claims about the statistics *)

\* the positions of the cleaned events whose main_tariff_rate parses as a
\* number, and the sum of those numbers
RECURSIVE SumOver(_)
SumOver(K) ==
    IF K = {} THEN 0
    ELSE LET k == CHOOSE x \in K : TRUE
         IN FloatValue(cleaned_events[k].main_tariff_rate) + SumOver(K \ {k})
Parsing ==
    {k \in 1..Len(cleaned_events) :
        LET r == cleaned_events[k].main_tariff_rate
        IN \/ r.t = "num"
           \/ r.t = "str" /\ StrStrip(r.s) # <<>> /\ AllDigits(StrStrip(r.s))}
ExampleRates ==
    [k \in 1..Len(cleaned_events) |-> cleaned_events[k].main_tariff_rate]
        = <<RNum(10), RStr(<<"2", "0">>), RStr(<<"b", "a", "d">>), RNone>>

\* C19: avg_tariff_rate (in hundredths) is the hundredth nearest to the mean
\* of exactly the main_tariff_rate values that parse as numbers, and 0 when
\* none parses; rates 10, "20", "bad", None give 15.0.
C19_AvgTariffRate ==
    pc = "stats" =>
        LET n == Cardinality(Parsing)
            avg == stats.avg_tariff_rate
            off == avg * n - 100 * SumOver(Parsing)
        IN /\ n = 0 => avg = 0
           /\ n > 0 => 2 * off <= n /\ -2 * off <= n
           /\ ExampleRates => avg = 1500

C19_Witness ==
    /\ pc = "stats"
    /\ ExampleRates
    /\ stats.avg_tariff_rate = 1500

\* C20: the affected_industries histogram counts occurrences: its count for
\* an industry is the number of (event, position) places where the industry
\* stands in the events' affected_industries lists.
C20_IndustryOccurrences ==
    pc = "stats" =>
        LET listOf(k) ==
                IF cleaned_events[k].affected_industries.t = "list"
                THEN cleaned_events[k].affected_industries.l ELSE <<>>
            places(ind) ==
                UNION {{<<k, j>> : j \in {i \in 1..Len(listOf(k)) : listOf(k)[i] = ind}} :
                        k \in 1..Len(cleaned_events)}
        IN /\ \A ind \in DOMAIN stats.affected_industries :
                stats.affected_industries[ind] = Cardinality(places(ind))
           /\ \A k \in 1..Len(cleaned_events) :
                cleaned_events[k].affected_industries.t = "list" =>
                    \A j \in 1..Len(cleaned_events[k].affected_industries.l) :
                        cleaned_events[k].affected_industries.l[j]
                            \in DOMAIN stats.affected_industries

\* one event lists the same industry twice and the histogram shows 2
C20_Witness ==
    /\ pc = "stats"
    /\ Len(cleaned_events) = 1
    /\ cleaned_events[1].affected_industries = LList(<<<<"a">>, <<"a">>>>)
    /\ stats.affected_industries[<<"a">>] = 2

\* the place of a name in the ascending order of names
NameRank(n) == CHOOSE i \in 1..Len(NameOrder) : NameOrder[i] = n
Ascending(names) ==
    \A i \in 1..(Len(names) - 1) : NameRank(names[i]) < NameRank(names[i + 1])
Elements(xs) == {xs[i] : i \in 1..Len(xs)}

\* C21: imposing_countries and targeted_countries are strictly ascending
\* (sorted, no duplicate) and hold exactly the imposing names, respectively
\* the targeted names of all the events' lists.
C21_CountryListsSortedUnique ==
    pc = "stats" =>
        /\ Ascending(stats.imposing_countries)
        /\ Ascending(stats.targeted_countries)
        /\ Elements(stats.imposing_countries) =
            {cleaned_events[k].imposing_country.v :
                k \in {i \in 1..Len(cleaned_events) :
                        /\ cleaned_events[i].imposing_country.t = "str"
                        /\ cleaned_events[i].imposing_country.v # ""}}
        /\ \A n \in Elements(NameOrder) :
            n \in Elements(stats.targeted_countries) <=>
                \E k \in 1..Len(cleaned_events) :
                    /\ cleaned_events[k].targeted_countries.t = "list"
                    /\ n \in Elements(cleaned_events[k].targeted_countries.l)

\* two events name the same targeted countries in different orders
C21_Witness ==
    /\ pc = "stats"
    /\ Len(cleaned_events) = 2
    /\ cleaned_events[1].targeted_countries = TList(<<"Bland", "Aland">>)
    /\ cleaned_events[2].targeted_countries = TList(<<"Aland", "Aland">>)
    /\ stats.targeted_countries = <<"Aland", "Bland">>

----------------------------------------------------------------------------
(* The reference-file specification: one call of clean_event_data under   *)
(* every state of the reference file                                      *)

FileEvents ==
    {[BaseEvent EXCEPT !.imposing_country_code = SStr(c)] : c \in {"EU", "US", "VN"}}
    \cup {[BaseEvent EXCEPT !.targeted_country_codes = TList(l),
                            !.targeted_country_names = n] :
            l \in {<<"EU">>, <<"CN", "VN">>, <<"XX">>},
            n \in {TAbsent, TNone, TList(<<"Aland">>)}}
    \cup {BaseEvent, NoTariffEvent}

FileBatches == SeqsUpTo(FileEvents, MaxEvents)

InitFile ==
    /\ csv_file \in FileStates
    /\ events \in FileBatches
    /\ cleaned_events = <<>>
    /\ date_str = <<>>
    /\ date_out = <<>>
    /\ previous = <<>>
    /\ events_df = <<>>
    /\ map_type = ""
    /\ map_rows = {}
    /\ stats = <<>>
    /\ SessionUnused
    /\ pc = "start"

NextFile == CleanEventDataCall

SpecFile == InitFile /\ [][NextFile]_vars

\* C22: in the table load_country_codes returns, EU maps to "European
\* Union" whatever the state of the file, so every cleaned event whose
\* imposing code is EU is named "European Union".
C22_SyntheticEntryWins ==
    /\ "EU" \in DOMAIN LoadCountryCodes(csv_file)
    /\ LoadCountryCodes(csv_file)["EU"] = "European Union"
    /\ pc = "done" =>
        \A k \in 1..Len(cleaned_events) :
            cleaned_events[k].imposing_country_code = SStr("EU") =>
                cleaned_events[k].imposing_country = SStr("European Union")

\* the file has its own EU row and an event imposed by EU was cleaned
C22_Witness ==
    /\ pc = "done"
    /\ csv_file = "present_eu"
    /\ FileCountryRows(csv_file)["EU"] # "European Union"
    /\ \E k \in 1..Len(cleaned_events) :
        /\ cleaned_events[k].imposing_country_code = SStr("EU")
        /\ cleaned_events[k].imposing_country = SStr("European Union")

\* C23: when the file is missing, unreadable or malformed the fallback table
\* is used and clean_event_data still completes: it raises on a batch only if
\* it also raises on that batch with the file present.
C23_FallbackNeverRaises ==
    (pc = "raised" /\ ~FileLoads(csv_file)) =>
        CleanEventDataRaises(events, "present")

----------------------------------------------------------------------------
(* standardize_countries_in_dataframe and process_events_data *)

\* country_name_mapping as first written
BaseNameMapping ==
    [n \in {"United States of America", "USA", "United States", "UK",
            "Great Britain", "European Union", "EU"} |->
        CASE n = "United States of America" -> "United States"
          [] n = "USA" -> "United States"
          [] n = "United States" -> "United States"
          [] n = "UK" -> "United Kingdom"
          [] n = "Great Britain" -> "United Kingdom"
          [] n = "European Union" -> "European Union"
          [] n = "EU" -> "European Union"]

RECURSIVE NameMapping(_, _, _)
\* country_name_mapping after the loop over the rows: a row whose code is in
\* the reference maps the code, and the row's own name, to the reference name
NameMapping(df, code_to_name, mapping) ==
    IF df = <<>> THEN mapping
    ELSE LET row == Head(df)
             code == row.imposing_country_code
             hit == code.t = "str" /\ code.v \in DOMAIN code_to_name
             withCode == IF hit THEN (code.v :> code_to_name[code.v]) @@ mapping
                         ELSE mapping
             withName == IF hit /\ row.imposing_country.t = "str"
                         THEN (row.imposing_country.v :> code_to_name[code.v])
                              @@ withCode
                         ELSE withCode
         IN NameMapping(Tail(df), code_to_name, withName)

\* standardize_countries_in_dataframe: Series.replace(country_name_mapping)
\* on the imposing_country column
StandardizeCountries(df, file) ==
    LET mapping == NameMapping(df, LoadCountryCodes(file), BaseNameMapping)
    IN [i \in 1..Len(df) |->
            LET cell == df[i].imposing_country
            IN IF cell.t = "str" /\ cell.v \in DOMAIN mapping
               THEN [df[i] EXCEPT !.imposing_country = SStr(mapping[cell.v])]
               ELSE df[i]]

\* an API response: a dict with an events list
ApiResult(evs) == [events |-> evs]

\* process_events_data: raised where clean_event_data raises
ProcessEventsData(api_result, file) ==
    IF api_result.events = <<>>
    THEN [raised |-> FALSE, processed_events |-> <<>>, events_df |-> <<>>]
    ELSE IF CleanEventDataRaises(api_result.events, file)
    THEN [raised |-> TRUE, processed_events |-> <<>>, events_df |-> <<>>]
    ELSE LET processed == CleanEventData(api_result.events, file)
         IN [raised |-> FALSE,
             processed_events |-> processed,
             events_df |-> StandardizeCountries(EventsToDataframe(processed), file)]

----------------------------------------------------------------------------
(* data_manager: fetch_tariff_events and the session functions *)

\* load_sample_data: the events of data/sample_tariff_events.json, or an
\* empty list when the file is missing or cannot be parsed
SampleEvents ==
    <<[BaseEvent EXCEPT !.id = SStr("s1"), !.imposing_country_code = SStr("CN")]>>

LoadSampleData(sample) ==
    IF sample = "present" THEN ApiResult(SampleEvents) ELSE ApiResult(<<>>)

\* fetch_tariff_events(hours_to_look_back=24) behind st.cache_data(ttl=3600):
\* a live cache entry is returned without running the body; otherwise the
\* API is queried when a key is configured, and sample data is returned when
\* there is no key or the response carries an error
FetchTariffEvents(src, cache) ==
    IF cache.valid
    THEN [result |-> cache.result, queried |-> FALSE, failed |-> FALSE,
          cache |-> cache]
    ELSE LET failed == ~src.api_key \/ src.failing
             result == IF failed THEN LoadSampleData(src.sample)
                       ELSE ApiResult(src.events)
         IN [result |-> result, queried |-> src.api_key, failed |-> failed,
             cache |-> [valid |-> TRUE, result |-> result]]

EmptyCache == [valid |-> FALSE, result |-> ApiResult(<<>>)]

\* st.session_state before anything is stored in it
EmptySession ==
    [events_initialized |-> FALSE,
     api_result |-> ApiResult(<<>>),
     processed_events |-> <<>>,
     events_df |-> <<>>,
     stats |-> CalculateStatistics(<<>>),
     last_update_time |-> 0]

\* the six assignments to st.session_state; the clock moves with each store
StoreSession(old, api_result, processed) ==
    [events_initialized |-> TRUE,
     api_result |-> api_result,
     processed_events |-> processed.processed_events,
     events_df |-> processed.events_df,
     stats |-> CalculateStatistics(processed.processed_events),
     last_update_time |-> old.last_update_time + 1]

CallRecord(op, queried, failed, stored, raised) ==
    [op |-> op, queried |-> queried, failed |-> failed, stored |-> stored,
     raised |-> raised, before |-> session]

MaxUpdates == 2   \* most stores into the session in one run

\* the body of initialize_session_data once its condition holds
FetchProcessStore(op) ==
    LET fetched == FetchTariffEvents(source, fetch_cache)
        processed == ProcessEventsData(fetched.result, csv_file)
    IN /\ session.last_update_time < MaxUpdates
       /\ fetch_cache' = fetched.cache
       /\ session' = IF processed.raised THEN session
                     ELSE StoreSession(session, fetched.result, processed)
       /\ last_call' = CallRecord(op, fetched.queried, fetched.failed,
                                  ~processed.raised, processed.raised)

\* faulty variant: the session is refetched although it is initialized
InitializeAlways(force_refresh) ==
    /\ pc = "session"
    /\ FetchProcessStore(IF force_refresh THEN "refresh" ELSE "initialize")
    /\ UNCHANGED <<csv_file, events, cleaned_events, date_str, date_out, pc>>
    /\ UNCHANGED <<laterVars, widgets, api_request, source>>

InitializeSessionData(force_refresh) ==
    /\ pc = "session"
    /\ IF ~session.events_initialized \/ force_refresh
       THEN FetchProcessStore(IF force_refresh THEN "refresh" ELSE "initialize")
       ELSE /\ last_call' = CallRecord("initialize", FALSE, FALSE, FALSE, FALSE)
            /\ UNCHANGED <<fetch_cache, session>>
    /\ UNCHANGED <<csv_file, events, cleaned_events, date_str, date_out, pc>>
    /\ UNCHANGED <<laterVars, widgets, api_request, source>>

InitializeSessionDataCall == \E force_refresh \in BOOLEAN : InitializeSessionData(force_refresh)

\* get_session_events_data: initializes when needed, then returns the four
\* stored values
GetSessionEventsDataCall ==
    /\ pc = "session"
    /\ IF ~session.events_initialized
       THEN FetchProcessStore("get")
       ELSE /\ last_call' = CallRecord("get", FALSE, FALSE, FALSE, FALSE)
            /\ UNCHANGED <<fetch_cache, session>>
    /\ UNCHANGED <<csv_file, events, cleaned_events, date_str, date_out, pc>>
    /\ UNCHANGED <<laterVars, widgets, api_request, source>>

\* update_session_data_with_custom_query(api_result)
UpdateSessionData(api_result) ==
    LET processed == ProcessEventsData(api_result, csv_file)
    IN /\ pc = "session"
       /\ session.last_update_time < MaxUpdates
       /\ session' = IF processed.raised THEN session
                     ELSE StoreSession(session, api_result, processed)
       /\ last_call' = CallRecord("update", FALSE, FALSE, ~processed.raised,
                                  processed.raised)
       /\ UNCHANGED <<csv_file, events, cleaned_events, date_str, date_out, pc>>
       /\ UNCHANGED <<laterVars, widgets, api_request, source, fetch_cache>>

\* raw events as the API or a custom query delivers them
UsaNameEvent ==
    [BaseEvent EXCEPT !.id = SStr("e2"), !.imposing_country_name = SStr("USA")]
UsCodeEvent ==
    [BaseEvent EXCEPT !.id = SStr("e3"), !.imposing_country_code = SStr("US")]

SourceBatches == {<<>>, <<BaseEvent>>, <<UsCodeEvent, BaseEvent>>}
CustomBatches == {<<UsaNameEvent>>, <<UsCodeEvent>>}

UpdateSessionDataCall == \E evs \in CustomBatches : UpdateSessionData(ApiResult(evs))

\* the API answers differently from now on
SourceChanges ==
    /\ pc = "session"
    /\ \E failing \in BOOLEAN, evs \in SourceBatches :
        /\ source' = [source EXCEPT !.failing = failing, !.events = evs]
        /\ source' # source
    /\ UNCHANGED <<csv_file, events, cleaned_events, date_str, date_out, pc>>
    /\ UNCHANGED <<laterVars, widgets, api_request, fetch_cache, session, last_call>>

\* an hour passes: the cached response of fetch_tariff_events is dropped
CacheExpires ==
    /\ pc = "session"
    /\ fetch_cache.valid
    /\ fetch_cache' = EmptyCache
    /\ UNCHANGED <<csv_file, events, cleaned_events, date_str, date_out, pc>>
    /\ UNCHANGED <<laterVars, widgets, api_request, source, session, last_call>>

InitSession ==
    /\ csv_file \in {"missing", "present"}
    /\ events = <<>>
    /\ cleaned_events = <<>>
    /\ date_str = <<>>
    /\ date_out = <<>>
    /\ previous = <<>>
    /\ events_df = <<>>
    /\ map_type = ""
    /\ map_rows = {}
    /\ stats = <<>>
    /\ source \in [api_key : BOOLEAN, failing : BOOLEAN, events : SourceBatches,
                   sample : {"missing", "corrupt", "present"}]
    /\ fetch_cache = EmptyCache
    /\ session = EmptySession
    /\ last_call = [op |-> "none", queried |-> FALSE, failed |-> FALSE,
                    stored |-> FALSE, raised |-> FALSE, before |-> EmptySession]
    /\ widgets = <<>>
    /\ api_request = <<>>
    /\ pc = "session"

NextSession ==
    \/ InitializeSessionDataCall
    \/ GetSessionEventsDataCall
    \/ UpdateSessionDataCall
    \/ SourceChanges
    \/ CacheExpires

SpecSession == InitSession /\ [][NextSession]_vars

----------------------------------------------------------------------------
(* Claims about the session layer *)

\* C24: when the fetch of a call ended in a source failure (no API key, or an
\* error response), the stored batch has an empty events list and the results
\* are those of an empty response.
C24_SourceFailureIsEmpty ==
    (last_call.failed /\ last_call.stored) =>
        /\ session.api_result.events = <<>>
        /\ session.processed_events = <<>>
        /\ session.events_df = <<>>
        /\ session.stats = CalculateStatistics(<<>>)

\* C26: after initialize_session_data(force_refresh=True) with a key
\* configured, the data source was queried during the call, and the stored
\* api_result is the source's present answer when that answer is no error.
C26_ForcedRefreshRefetches ==
    (last_call.op = "refresh" /\ last_call.stored /\ source.api_key) =>
        /\ last_call.queried
        /\ ~source.failing => session.api_result = ApiResult(source.events)

\* C27: whenever events_initialized is set, processed_events is the
\* normalization of api_result's events, events_df is the table of
\* processed_events and stats is the statistics of processed_events; a
\* get_session_events_data that returns leaves the session initialized.
C27_SessionConsistent ==
    /\ session.events_initialized =>
        /\ session.processed_events =
            CleanEventData(session.api_result.events, csv_file)
        /\ session.events_df = EventsToDataframe(session.processed_events)
        /\ session.stats = CalculateStatistics(session.processed_events)
    /\ (last_call.op = "get" /\ ~last_call.raised) => session.events_initialized

\* C28: initialize_session_data() without force_refresh on an initialized
\* session queries nothing and leaves every stored value, last_update_time
\* included, as it was.
C28_InitializeOnce ==
    (last_call.op = "initialize" /\ last_call.before.events_initialized) =>
        /\ ~last_call.queried
        /\ ~last_call.stored
        /\ session = last_call.before

\* a custom query installed its dataset and a later page load left it alone
C28_Witness ==
    /\ last_call.op = "initialize"
    /\ last_call.before.events_initialized
    /\ session.api_result = ApiResult(<<UsaNameEvent>>)
    /\ session.last_update_time = 1

----------------------------------------------------------------------------
(* process_events_data on one batch *)

\* events that name the imposing country without a code
UsNameEvent ==
    [BaseEvent EXCEPT !.id = SStr("e4"), !.imposing_country_name = SStr("US")]
UsaLongNameEvent ==
    [BaseEvent EXCEPT !.id = SStr("e5"),
                      !.imposing_country_name = SStr("United States of America")]

ProcessEvents ==
    {BaseEvent, UsaNameEvent, UsCodeEvent, UsNameEvent, UsaLongNameEvent,
     NoTariffEvent}

ProcessBatches == SeqsUpTo(ProcessEvents, MaxEvents)

InitProcess ==
    /\ csv_file \in {"missing", "present"}
    /\ events \in ProcessBatches
    /\ cleaned_events = <<>>
    /\ date_str = <<>>
    /\ date_out = <<>>
    /\ previous = <<>>
    /\ events_df = <<>>
    /\ map_type = ""
    /\ map_rows = {}
    /\ stats = <<>>
    /\ SessionUnused
    /\ pc = "start"

ProcessEventsDataCall ==
    /\ pc = "start"
    /\ LET result == ProcessEventsData(ApiResult(events), csv_file)
       IN IF result.raised
          THEN /\ pc' = "raised"
               /\ UNCHANGED <<cleaned_events, events_df>>
          ELSE /\ pc' = "processed"
               /\ cleaned_events' = result.processed_events
               /\ events_df' = result.events_df
    /\ UNCHANGED <<csv_file, events, date_str, date_out>>
    /\ UNCHANGED <<previous, map_type, map_rows, stats>>
    /\ UNCHANGED sessionVars

NextProcess == ProcessEventsDataCall

SpecProcess == InitProcess /\ [][NextProcess]_vars

\* every event of the batch that yields a row when processed alone (with the
\* same reference file) yields that same row in the batch's table
C30_BatchIndependent ==
    pc = "processed" =>
        \A k \in 1..Len(events) :
            LET alone == ProcessEventsData(ApiResult(<<events[k]>>), csv_file).events_df
            IN alone # <<>> => \E j \in 1..Len(events_df) : events_df[j] = alone[1]

\* C30: the row process_events_data produces for an event does not depend on
\* the other events of the batch, and the imposing_country cell of every row
\* is the imposing_country of the canonical event at the same position.
C30_RecordIndependence ==
    /\ C30_BatchIndependent
    /\ pc = "processed" =>
        /\ Len(events_df) = Len(cleaned_events)
        /\ \A j \in 1..Len(events_df) :
              events_df[j].imposing_country = cleaned_events[j].imposing_country

----------------------------------------------------------------------------
(* events_to_dataframe on cleaned events with list, dict and null cells *)

\* elements of a tariff_rates list: a string, a dict with a 'name' key and a
\* dict without one
RateItem == <<"1", "0">>
NamedItem == DictItem(<<"a", "d">>, <<"{", "n", ":", "a", "d", "}">>)
UnnamedItem == DictItemNoName(<<"{", "}">>)
TableItems == {RateItem, NamedItem, UnnamedItem}

TableEvents ==
    {[BaseEvent EXCEPT !.tariff_rates = r] :
        r \in {LAbsent, LNone} \cup {LList(l) : l \in SeqsUpTo(TableItems, MaxListLen)}}
    \cup {[BaseEvent EXCEPT !.targeted_country_codes = TList(<<"CN", "EU">>),
                            !.main_tariff_rate = RNum(10)],
          NoTariffEvent}

\* the events that follow the first one of a batch
LaterTableEvents ==
    {[BaseEvent EXCEPT !.tariff_rates = LNone],
     [BaseEvent EXCEPT !.tariff_rates = LList(<<NamedItem>>)],
     NoTariffEvent}

TableBatches ==
    {<<>>} \cup {<<e>> \o rest : e \in TableEvents,
                                rest \in SeqsUpTo(LaterTableEvents, MaxEvents - 1)}

InitTable ==
    /\ csv_file = "missing"
    /\ events \in TableBatches
    /\ cleaned_events = <<>>
    /\ date_str = <<>>
    /\ date_out = <<>>
    /\ previous = <<>>
    /\ events_df = <<>>
    /\ map_type = ""
    /\ map_rows = {}
    /\ stats = <<>>
    /\ SessionUnused
    /\ pc = "start"

NextTable == CleanEventDataCall \/ EventsToDataframeCall

SpecTable == InitTable /\ [][NextTable]_vars

\* what each element contributes to the joined string
ItemText ==
    [item \in TableItems |->
        CASE item = RateItem -> <<"1", "0">>
          [] item = NamedItem -> <<"a", "d">>
          [] item = UnnamedItem -> <<"{", "}">>]

RECURSIVE ItemStart(_, _)
\* the position in the joined string where the text of element k begins
ItemStart(l, k) ==
    IF k = 1 THEN 1 ELSE ItemStart(l, k - 1) + Len(ItemText[l[k - 1]]) + 2

\* s is the texts of the elements of l, in order, separated by ", "
IsJoined(l, s) ==
    /\ Len(s) = IF l = <<>> THEN 0
                ELSE ItemStart(l, Len(l)) + Len(ItemText[l[Len(l)]]) - 1
    /\ \A k \in 1..Len(l) :
          LET from == ItemStart(l, k)
              to == from + Len(ItemText[l[k]]) - 1
          IN /\ SubSeq(s, from, to) = ItemText[l[k]]
             /\ k < Len(l) => s[to + 1] = "," /\ s[to + 2] = " "

----------------------------------------------------------------------------
(* The Query Builder page: from the widgets to the API request *)

MaxDaysAgo == 30     \* the upper end of the "days to look back" slider
DefaultDays == 30    \* the look-back of format_api_request's default range

DigitChar ==
    [n \in 0..9 |->
        CASE n = 0 -> "0" [] n = 1 -> "1" [] n = 2 -> "2" [] n = 3 -> "3"
          [] n = 4 -> "4" [] n = 5 -> "5" [] n = 6 -> "6" [] n = 7 -> "7"
          [] n = 8 -> "8" [] n = 9 -> "9"]

RECURSIVE IntStr(_)
\* str(n) of a natural number
IntStr(n) == IF n < 10 THEN <<DigitChar[n]>> ELSE IntStr(n \div 10) \o <<DigitChar[n % 10]>>

\* date.strftime("%Y-%m-%d")
Strftime(date) ==
    Zfill(IntStr(date.y), 4) \o <<"-">> \o Zfill(IntStr(date.m), 2)
        \o <<"-">> \o Zfill(IntStr(date.d), 2)

\* a {"gte": .., "lte": ..} dict, and None
Range(gte, lte) == [t |-> "range", gte |-> gte, lte |-> lte]
PyNone == [t |-> "none"]

\* f"now-{days}d" .. "now"
LastDays(days) == Range(<<"n", "o", "w", "-">> \o IntStr(days) \o <<"d">>, <<"n", "o", "w">>)

\* the dates offered to the two date inputs
QueryDates == {[y |-> 2025, m |-> 1, d |-> 5], [y |-> 2025, m |-> 12, d |-> 31]}

\* date_field chosen by the date_type radio
DateField(w) ==
    IF w.date_type = "Announcement Date" THEN "tariffs_v2.announcement_date"
    ELSE IF w.date_type = "Implementation Date" THEN "tariffs_v2.implementation_date"
    ELSE "extraction_date"

\* date_range built from the date_option radio, the slider and the date inputs
DateRange(w) ==
    IF w.date_option = "Last N days" THEN LastDays(w.days_ago)
    ELSE Range(Strftime(w.start_date), Strftime(w.end_date))

\* format_api_request (the arguments the page never passes are left at
\* their defaults)
FormatApiRequest(extraction_date_range, event_date_range, imposing_countries, min_tariff_rate) ==
    LET extraction == IF extraction_date_range = PyNone THEN LastDays(DefaultDays)
                      ELSE extraction_date_range
        f1 == [k \in {"extraction_date"} |-> extraction]
        f2 == IF event_date_range # PyNone
              THEN ("event_date" :> event_date_range) @@ f1
              ELSE f1
        f3 == IF imposing_countries # PyNone /\ Len(imposing_countries.l) > 0
              THEN IF Len(imposing_countries.l) = 1
                   THEN ("tariffs_v2.imposing_country_code" :>
                            [t |-> "str", v |-> imposing_countries.l[1]]) @@ f2
                   ELSE ("tariffs_v2.imposing_country_code" :> imposing_countries) @@ f2
              ELSE f2
        f4 == IF min_tariff_rate # PyNone
              THEN ("tariffs_v2.main_tariff_rate" :>
                        [t |-> "gte", gte |-> min_tariff_rate.n]) @@ f3
              ELSE f3
    IN [event_type |-> "tariffs_v2",
        attach_articles_data |-> TRUE,
        additional_filters |-> f4]

\* the page: format_api_request, then the "override" that moves the
\* extraction_date entry to date_field
BuildApiRequest(w) ==
    LET date_field == DateField(w)
        date_range == DateRange(w)
        request == FormatApiRequest(
            IF date_field = "extraction_date" THEN date_range ELSE PyNone,
            IF date_field # "extraction_date" THEN date_range ELSE PyNone,
            IF w.imposing_countries # <<>>
                THEN [t |-> "list", l |-> w.imposing_countries] ELSE PyNone,
            IF w.min_rate > 0 THEN [t |-> "num", n |-> w.min_rate] ELSE PyNone)
        filters == request.additional_filters
    IN IF date_field # "extraction_date" /\ "extraction_date" \in DOMAIN filters
       THEN [request EXCEPT !.additional_filters =
                (date_field :> filters["extraction_date"])
                    @@ [k \in DOMAIN filters \ {"extraction_date"} |-> filters[k]]]
       ELSE request

\* the widget values a user can leave behind
WidgetValues ==
    {[date_type |-> dt, date_option |-> "Last N days", days_ago |-> n,
      start_date |-> <<>>, end_date |-> <<>>,
      imposing_countries |-> ic, min_rate |-> mr] :
        dt \in {"Extraction Date", "Announcement Date", "Implementation Date"},
        n \in 1..MaxDaysAgo,
        ic \in {<<>>, <<"US">>, <<"US", "CN">>}, mr \in {0, 10}}
    \cup
    {[date_type |-> dt, date_option |-> "Custom date range", days_ago |-> 0,
      start_date |-> sd, end_date |-> ed,
      imposing_countries |-> ic, min_rate |-> mr] :
        dt \in {"Extraction Date", "Announcement Date", "Implementation Date"},
        sd \in QueryDates, ed \in QueryDates,
        ic \in {<<>>, <<"US">>, <<"US", "CN">>}, mr \in {0, 10}}

InitQuery ==
    /\ csv_file = "missing"
    /\ events = <<>>
    /\ cleaned_events = <<>>
    /\ date_str = <<>>
    /\ date_out = <<>>
    /\ previous = <<>>
    /\ events_df = <<>>
    /\ map_type = ""
    /\ map_rows = {}
    /\ stats = <<>>
    /\ source = <<>>
    /\ fetch_cache = <<>>
    /\ session = <<>>
    /\ last_call = <<>>
    /\ widgets \in WidgetValues
    /\ api_request = <<>>
    /\ pc = "widgets"

\* the script run that builds the request preview
BuildApiRequestCall ==
    /\ pc = "widgets"
    /\ api_request' = BuildApiRequest(widgets)
    /\ pc' = "request"
    /\ UNCHANGED <<csv_file, events, cleaned_events, date_str, date_out>>
    /\ UNCHANGED <<laterVars, source, fetch_cache, session, last_call, widgets>>

NextQuery == BuildApiRequestCall

SpecQuery == InitQuery /\ [][NextQuery]_vars

\* C29: with 'Announcement Date' or 'Implementation Date' chosen, the
\* request filters the chosen field by the range the user selected, and no
\* date-range filter of the request carries any other range.
C29_ChosenDateFieldFiltered ==
    (pc = "request" /\ widgets.date_type # "Extraction Date") =>
        LET filters == api_request.additional_filters
        IN /\ DateField(widgets) \in DOMAIN filters
           /\ filters[DateField(widgets)] = DateRange(widgets)
           /\ \A k \in DOMAIN filters :
                 filters[k].t = "range" => filters[k] = DateRange(widgets)

====
